---- MODULE Spec2Model ----
(***************************************************************************)
(* DynamicTinyPointerTable (src/src/dynamic_table.rs): a table of slots,   *)
(* each an optional value plus a generation counter, with a free list of   *)
(* slot indices, addressed through TinyPointer handles (index, generation).*)
(*                                                                         *)
(* Vec indices are 0-based in the source; slot idx of the source is        *)
(* slots[idx + 1] here.  Option<T> is a sequence: <<>> is None and <<v>>   *)
(* is Some(v).                                                             *)
(***************************************************************************)
EXTENDS Integers, Sequences, FiniteSets, TLC

(* ------------------------------ bounds -------------------------------- *)
\* initial_capacity of new() ranges over 1..MaxInitCap
MaxInitCap == 1
\* resize is explored only while the doubled capacity stays <= MaxCap, and
\* a free() only when it leaves free_list with at most MaxCap entries
MaxCap == 2
\* the u32 generation counter, which has 2^32 values in the source, is explored
\* with GenMod values, so that the wrap-around of wrapping_add is within reach
GenMod == 3
\* the u32 index of a TinyPointer is explored with IndexBits bits: 2^IndexBits
\* slots can be told apart by a handle, as 2^32 can in the source.  Every table
\* of Spec and SpecAuto has at most that many slots (MaxCap); SpecGrow goes
\* beyond (MaxGrowCap).
IndexBits == 1
\* in SpecGrow the table doubles while the doubled capacity stays <= MaxGrowCap
MaxGrowCap == 4

\* usize is explored with UsizeBits bits
UsizeBits == 8
\* new() is evaluated, apart from the tables that are explored, for every
\* argument in 0 .. MaxNewArg
MaxNewArg == 4

(* ----------------------------- data types ----------------------------- *)
IndexMod == 2 ^ IndexBits
UsizeMod == 2 ^ UsizeBits

\* The stored values, of the type parameter T.  No operation of the table
\* inspects a value, so two distinct ones tell every overwrite and mix-up apart.
Values == {1, 2}
Generations == 0 .. (GenMod - 1)
None == << >>
Some(v) == << v >>

\* struct TinyPointer { index, generation }; a Copy value that any table of
\* the crate can issue, so a caller can present every pair to every table.
\* The pointers presented to a table of capacity 1 .. MaxCap have an index in
\* 0 .. MaxCap - 1: in range for the larger tables, out of range for the smaller.
MaxPtrIndex == IF MaxCap <= IndexMod THEN MaxCap - 1 ELSE IndexMod - 1
TinyPointer == [index : 0 .. MaxPtrIndex, generation : Generations]
NoPtr == [index |-> 0, generation |-> 0]

\* struct Slot { value, generation }
Slot(value, generation) == [value |-> value, generation |-> generation]

VARIABLES
    slots,      \* Vec<Slot<T>>
    free_list,  \* Vec<usize>
    last,       \* the call made last: its arguments and what it returned
    watch,      \* one pointer returned by allocate, picked by the observer, and
                \* what happened to it since (see Watch)
    recycled,   \* the slot indices for which some free() has returned a value
    init_capacity,  \* the argument new() was called with, in the specification
                \* that keeps it (SpecAuto); 0 where it is not kept
    peak        \* the largest number of slots that held a value at one time so
                \* far, in the specification that keeps it (SpecAuto); 0 elsewhere

vars == << slots, free_list, last, watch, recycled, init_capacity, peak >>

(* ----------------------------- operations ----------------------------- *)
\* fn capacity(&self)
capacity(s) == Len(s)

\* a free() that leaves the slot's generation as it was
wrapping_add_1_Stuck(g) == g

\* u32::wrapping_add(1)
wrapping_add_1(g) == (g + 1) % GenMod

\* `idx as u32`
as_u32(idx) == idx % IndexMod

\* for i in lo..hi { slots.push(Slot { value: None, generation: 0 }); free_list.push(i); }
RECURSIVE push_free_slots(_, _, _, _)
push_free_slots(s, f, i, hi) ==
    IF i >= hi THEN [slots |-> s, free_list |-> f]
    ELSE push_free_slots(Append(s, Slot(None, 0)), Append(f, i), i + 1, hi)

\* a new without the assert on its argument
new_Unchecked(initial_capacity) ==
    LET t == push_free_slots(<< >>, << >>, 0, initial_capacity)
    IN  [panic |-> FALSE, slots |-> t.slots, free_list |-> t.free_list]

\* fn new(initial_capacity): assert!(initial_capacity > 0, ...) panics and no
\* table is returned; otherwise the table built by the loop
new(initial_capacity) ==
    IF initial_capacity > 0
    THEN LET t == push_free_slots(<< >>, << >>, 0, initial_capacity)
         IN  [panic |-> FALSE, slots |-> t.slots, free_list |-> t.free_list]
    ELSE [panic |-> TRUE, slots |-> << >>, free_list |-> << >>]

\* a resize that rebuilds the table, losing the slots it had
resize_Rebuilding(s, f) == push_free_slots(<< >>, f, 0, 2 * capacity(s))

\* a resize that grows by a fixed two slots instead of doubling
resize_ByTwoSlots(s, f) == push_free_slots(s, f, capacity(s), capacity(s) + 2)

\* fn resize(&mut self)
resize(s, f) ==
    LET old_capacity == capacity(s)
        new_capacity == old_capacity * 2
    IN  push_free_slots(s, f, old_capacity, new_capacity)

\* a get that does not compare generations
get_AnyGeneration(s, ptr) ==
    IF ptr.index < Len(s) THEN s[ptr.index + 1].value ELSE None

\* fn get(&self, ptr): slots.get(ptr.index()).and_then(...)
get(s, ptr) ==
    IF ptr.index < Len(s)
    THEN LET slot == s[ptr.index + 1]
         IN  IF slot.generation = ptr.generation THEN slot.value ELSE None
    ELSE None

\* fn allocated(&self): slots.len() - free_list.len() on usize.  When free_list
\* is the longer one the subtraction underflows: the call panics in a build with
\* overflow checks and wraps modulo the width of usize in one without, so the
\* result is the set of outcomes a build can produce.
allocated(s, f) ==
    IF Len(f) <= Len(s)
    THEN { [panic |-> FALSE, val |-> Len(s) - Len(f)] }
    ELSE { [panic |-> TRUE, val |-> 0],
           [panic |-> FALSE, val |-> (Len(s) - Len(f)) % UsizeMod] }

\* fn load_factor(&self): allocated() as f64 / capacity() as f64, kept as the
\* fraction num / den
load_factor(s, f) ==
    { [panic |-> a.panic, num |-> a.val, den |-> capacity(s)] : a \in allocated(s, f) }

\* an allocate that grows the table on every call
allocate_AlwaysGrowing(s, f, value) ==
    LET t   == resize(s, f)
        idx == t.free_list[Len(t.free_list)]
        slot == t.slots[idx + 1]
    IN  [slots     |-> [t.slots EXCEPT ![idx + 1].value = Some(value)],
         free_list |-> SubSeq(t.free_list, 1, Len(t.free_list) - 1),
         idx       |-> idx,
         resized   |-> TRUE,
         ptr       |-> [index |-> as_u32(idx), generation |-> slot.generation]]

\* an allocate that already grows the table when it is about to take the last
\* free-list entry
allocate_Eager(s, f, value) ==
    LET t   == IF Len(f) <= 1 THEN resize(s, f) ELSE [slots |-> s, free_list |-> f]
        idx == t.free_list[Len(t.free_list)]
        slot == t.slots[idx + 1]
    IN  [slots     |-> [t.slots EXCEPT ![idx + 1].value = Some(value)],
         free_list |-> SubSeq(t.free_list, 1, Len(t.free_list) - 1),
         idx       |-> idx,
         resized   |-> (Len(f) <= 1),
         ptr       |-> [index |-> as_u32(idx), generation |-> slot.generation]]

\* fn allocate(&mut self, value): the table after the call and the pointer returned
allocate(s, f, value) ==
    LET t   == IF f = << >> THEN resize(s, f) ELSE [slots |-> s, free_list |-> f]
        idx == t.free_list[Len(t.free_list)]
        slot == t.slots[idx + 1]
    IN  [slots     |-> [t.slots EXCEPT ![idx + 1].value = Some(value)],
         free_list |-> SubSeq(t.free_list, 1, Len(t.free_list) - 1),
         idx       |-> idx,
         resized   |-> (f = << >>),
         ptr       |-> [index |-> as_u32(idx), generation |-> slot.generation]]

\* fn free(&mut self, ptr): the table after the call and the value returned
free(s, f, ptr) ==
    LET idx == ptr.index
    IN  IF idx < Len(s) /\ s[idx + 1].generation = ptr.generation
        THEN [slots     |-> [s EXCEPT ![idx + 1] =
                                Slot(None, wrapping_add_1(s[idx + 1].generation))],
              free_list |-> Append(f, idx),
              ret       |-> s[idx + 1].value]
        ELSE [slots |-> s, free_list |-> f, ret |-> None]

\* a get_mut that does not compare generations
get_mut_AnyGeneration(s, ptr) ==
    IF ptr.index < Len(s) THEN s[ptr.index + 1].value ELSE None

\* fn get_mut(&mut self, ptr): the Option returned, the value behind the
\* &mut T it holds
get_mut(s, ptr) ==
    IF ptr.index < Len(s)
    THEN LET slot == s[ptr.index + 1]
         IN  IF slot.generation = ptr.generation THEN slot.value ELSE None
    ELSE None

\* `*val = w` through the Some(val) that get_mut(ptr) returned
write(s, ptr, w) == [s EXCEPT ![ptr.index + 1].value = Some(w)]

(* ------------------------------ observer ------------------------------ *)
\* the record of a call: watched, whether its argument was the watched
\* pointer; ret, the Option returned by get/get_mut/free; resized, whether it
\* ran resize()
Call(op, watched, ret, resized) ==
    [op |-> op, watched |-> watched, ret |-> ret, resized |-> resized]

\* on: a pointer is watched; ptr, val: allocate(val) returned ptr;
\* touched: ptr has been passed to free or get_mut since;
\* age: 0 until free(ptr) returns a value, then the number of times the
\* generation of slot ptr.index was incremented from that call on, counted
\* up to GenMod
Watch(on, ptr, val, touched, age) ==
    [on |-> on, ptr |-> ptr, val |-> val, touched |-> touched, age |-> age]
NoWatch == Watch(FALSE, NoPtr, 0, FALSE, 0)

WatchAfterFree(w, ptr, ret, bumped) ==
    IF ~w.on THEN w
    ELSE LET t == w.touched \/ ptr = w.ptr
             a == IF w.age = 0
                  THEN (IF ptr = w.ptr /\ ret # None THEN 1 ELSE 0)
                  ELSE (IF bumped /\ ptr.index = w.ptr.index /\ w.age < GenMod
                        THEN w.age + 1 ELSE w.age)
         IN  Watch(TRUE, w.ptr, w.val, t, a)

IsWatched(ptr) == watch.on /\ ptr = watch.ptr

\* the number of slots of s that hold a value
occupied(s) == Cardinality({ i \in 1 .. Len(s) : s[i].value # None })

(* ------------------------------- actions ------------------------------ *)
Init ==
    /\ \E initial_capacity \in 1 .. MaxInitCap :
          LET t == new(initial_capacity)
          IN  slots = t.slots /\ free_list = t.free_list
    /\ init_capacity = 0
    /\ last = Call("new", FALSE, None, FALSE)
    /\ watch = NoWatch
    /\ recycled = {}
    /\ peak = 0

\* allocate(value) on a table that may grow up to max_capacity slots
AllocateWithin(value, max_capacity) ==
    /\ free_list = << >> => 2 * capacity(slots) <= max_capacity
    /\ LET r == allocate(slots, free_list, value)
       IN  /\ slots' = r.slots
           /\ free_list' = r.free_list
           /\ last' = Call("allocate", FALSE, None, r.resized)
           /\ \/ watch' = watch
              \/ ~watch.on /\ watch' = Watch(TRUE, r.ptr, value, FALSE, 0)
           /\ recycled' = recycled
           /\ peak' = IF init_capacity > 0 /\ occupied(r.slots) > peak
                      THEN occupied(r.slots) ELSE peak
           /\ UNCHANGED init_capacity

Allocate(value) == AllocateWithin(value, MaxCap)

Get(ptr) ==
    /\ last' = Call("get", IsWatched(ptr), get(slots, ptr), FALSE)
    /\ UNCHANGED << slots, free_list, watch, recycled, init_capacity, peak >>

\* get_mut(ptr) and, when it returns Some(val), the caller's `*val = w`
GetMut(ptr) ==
    LET ret == get_mut(slots, ptr)
    IN  /\ IF ret = None
           THEN slots' = slots
           ELSE \E w \in Values : slots' = write(slots, ptr, w)
        /\ last' = Call("get_mut", IsWatched(ptr), ret, FALSE)
        /\ watch' = IF watch.on /\ ptr = watch.ptr
                     THEN [watch EXCEPT !.touched = TRUE] ELSE watch
        /\ UNCHANGED << free_list, recycled, init_capacity, peak >>

Free(ptr) ==
    LET r == free(slots, free_list, ptr)
    IN  /\ Len(r.free_list) <= MaxCap
        /\ slots' = r.slots
        /\ free_list' = r.free_list
        /\ last' = Call("free", IsWatched(ptr), r.ret, FALSE)
        /\ watch' = WatchAfterFree(watch, ptr, r.ret, r.slots # slots)
        /\ recycled' = IF r.ret # None THEN recycled \cup {ptr.index} ELSE recycled
        /\ UNCHANGED << init_capacity, peak >>

Resize ==
    /\ 2 * capacity(slots) <= MaxCap
    /\ LET r == resize(slots, free_list)
       IN  /\ slots' = r.slots
           /\ free_list' = r.free_list
    /\ last' = Call("resize", FALSE, None, TRUE)
    /\ UNCHANGED << watch, recycled, init_capacity, peak >>

Next ==
    \/ \E value \in Values : Allocate(value)
    \/ \E ptr \in TinyPointer : Get(ptr)
    \/ \E ptr \in TinyPointer : GetMut(ptr)
    \/ \E ptr \in TinyPointer : Free(ptr)
    \/ Resize

Spec == Init /\ [][Next]_vars

\* A table from new(initial_capacity), the argument kept and 0 included, that
\* is driven through allocate, get, get_mut and free only: resize() runs
\* from allocate alone.  A new() that panicked leaves no table to call.
InitAuto ==
    /\ \E initial_capacity \in 0 .. MaxInitCap :
          LET t == new(initial_capacity)
          IN  /\ slots = t.slots /\ free_list = t.free_list
              /\ init_capacity = initial_capacity
              /\ last = Call(IF t.panic THEN "panic" ELSE "new", FALSE, None, FALSE)
    /\ watch = NoWatch
    /\ recycled = {}
    /\ peak = 0

NextAuto ==
    \/ \E value \in Values : last.op # "panic" /\ Allocate(value)
    \/ \E ptr \in TinyPointer : last.op # "panic" /\ Get(ptr)
    \/ \E ptr \in TinyPointer : last.op # "panic" /\ GetMut(ptr)
    \/ \E ptr \in TinyPointer : last.op # "panic" /\ Free(ptr)

SpecAuto == InitAuto /\ [][NextAuto]_vars

\* A table that is filled by allocate and read by get, and that grows beyond
\* the number of slots the index of a handle can tell apart.
NextGrow ==
    \/ \E value \in Values : AllocateWithin(value, MaxGrowCap)
    \/ \E ptr \in TinyPointer : Get(ptr)

SpecGrow == Init /\ [][NextGrow]_vars

(* ------------------------------- claims ------------------------------- *)
Indices(s) == 0 .. (Len(s) - 1)
Occupied(s, i) == s[i + 1].value # None
\* the handle matches: index in range, slot occupied, generation equal
Matches(s, ptr) ==
    /\ ptr.index < capacity(s)
    /\ Occupied(s, ptr.index)
    /\ s[ptr.index + 1].generation = ptr.generation

\* C1: after every operation, a slot holds no value iff its index is in
\* free_list, every index of free_list is below capacity(), and no index is
\* in free_list twice.
C1_FreeListIsTheFreeSet ==
    /\ \A i \in Indices(slots) :
          ~Occupied(slots, i) <=> (\E k \in 1 .. Len(free_list) : free_list[k] = i)
    /\ \A k \in 1 .. Len(free_list) : free_list[k] < capacity(slots)
    /\ \A j, k \in 1 .. Len(free_list) : j # k => free_list[j] # free_list[k]

\* C2: a free(ptr) whose ptr does not match (index out of range, slot already
\* free, or generation different) returns None and leaves slots and free_list
\* as they were.
C2_UnmatchedFreeChangesNothing ==
    [][ \A ptr \in TinyPointer :
          (Free(ptr) /\ ~Matches(slots, ptr))
              => (last'.ret = None /\ slots' = slots /\ free_list' = free_list) ]_vars

\* C3 as stated: once free(h) has returned a value, every later get(h),
\* get_mut(h) and free(h) returns None, whatever happened in between and
\* however often the slot was reused.
C3_FreedPointerStaysDead ==
    (watch.on /\ watch.age >= 1)
        => /\ get(slots, watch.ptr) = None
           /\ get_mut(slots, watch.ptr) = None
           /\ free(slots, free_list, watch.ptr).ret = None

\* C3 as amended: once free(h) has returned a value, get(h), get_mut(h) and
\* free(h) return None for as long as the generation of slot h.index() has been
\* incremented fewer times than the counter has values, that free included.
C3_FreedPointerDeadUntilWrap ==
    (watch.on /\ watch.age >= 1 /\ watch.age < GenMod)
        => /\ get(slots, watch.ptr) = None
           /\ get_mut(slots, watch.ptr) = None
           /\ free(slots, free_list, watch.ptr).ret = None

\* the freed pointer's slot has been freed once more and is in use again, and
\* get() has just been called with the freed pointer
C3_Witness ==
    /\ watch.on /\ watch.age >= 2 /\ watch.age < GenMod
    /\ Occupied(slots, watch.ptr.index)
    /\ last.op = "get" /\ last.watched /\ last.ret = None

\* C4: an allocate that stores into a slot whose index was handed out and
\* freed before returns a pointer different from every pointer returned for
\* that index earlier; get() of the earlier pointer returns None after the
\* call and get() of the new pointer returns the new value.
C4_ReuseReturnsNewPointer ==
    [][ \A value \in Values :
          LET r == allocate(slots, free_list, value)
          IN  (/\ last'.op = "allocate"
               /\ slots' = r.slots
               /\ r.idx \in recycled
               /\ watch.on
               /\ watch.ptr.index = r.ptr.index)
                  => /\ r.ptr # watch.ptr
                     /\ get(slots', watch.ptr) = None
                     /\ get(slots', r.ptr) = Some(value) ]_vars

\* C5: the first free(h) of a pointer h that allocate(v) returned, with no
\* get_mut(h) in between, returns Some(v).
C5_FirstFreeReturnsAllocatedValue ==
    [][ (watch.on /\ ~watch.touched /\ last'.op = "free" /\ last'.watched)
          => last'.ret = Some(watch.val) ]_vars

\* C6: a pointer h that allocate(v) returned, and that was not passed to free
\* or get_mut since, keeps its value: get(h) returns Some(v) after every
\* further allocate, resize, get, and free or get_mut of other pointers.
C6_HeldPointerKeepsItsValue ==
    (watch.on /\ ~watch.touched) => get(slots, watch.ptr) = Some(watch.val)

\* C7: resize() leaves the value and the generation of every slot below the
\* old capacity as they were, so get(ptr) returns after it what it returned
\* before it, for every pointer; the slots it adds are free, with generation 0.
\* The resize that allocate runs does the same to the slots it finds.
C7_ResizeKeepsEverySlot ==
    [][ /\ last'.resized =>
              /\ Len(slots') >= Len(slots)
              /\ \A i \in Indices(slots) :
                    i + 1 <= Len(slots') /\ slots'[i + 1] = slots[i + 1]
        /\ last'.op = "resize" =>
              /\ \A ptr \in TinyPointer : get(slots', ptr) = get(slots, ptr)
              /\ \A i \in Indices(slots') \ Indices(slots) :
                    slots'[i + 1] = Slot(None, 0) ]_vars

\* resize() has just run on a table that holds the watched pointer's value
C7_Witness ==
    /\ last.op = "resize"
    /\ watch.on /\ ~watch.touched
    /\ get(slots, watch.ptr) = Some(watch.val)
    /\ capacity(slots) > watch.ptr.index + 1

\* C8: capacity() is positive in every state and never decreases; a step
\* changes it only by running resize (directly or from allocate), and every
\* resize makes it exactly twice what it was.
C8_CapacityOnlyDoubles ==
    /\ [](capacity(slots) > 0)
    /\ [][ (capacity(slots') >= capacity(slots))
            /\ ((capacity(slots') # capacity(slots)) => last'.resized)
            /\ (last'.resized => (capacity(slots') = 2 * capacity(slots))) ]_vars

\* an allocate on a full table has just doubled the capacity
C8_Witness ==
    /\ last.op = "allocate" /\ last.resized
    /\ capacity(slots) = 2
    /\ Occupied(slots, 0) /\ Occupied(slots, 1)

\* C9: allocated() is capacity() minus the length of free_list, which is the
\* number of slots holding a value; it lies in 0 .. capacity(), the
\* subtraction never underflows, and load_factor() lies in [0, 1].
C9_AllocatedCountsOccupiedSlots ==
    /\ \A a \in allocated(slots, free_list) :
          /\ ~a.panic
          /\ a.val = capacity(slots) - Len(free_list)
          /\ a.val = Cardinality({ i \in Indices(slots) : Occupied(slots, i) })
          /\ 0 <= a.val /\ a.val <= capacity(slots)
    /\ \A l \in load_factor(slots, free_list) :
          ~l.panic /\ l.den > 0 /\ 0 <= l.num /\ l.num <= l.den

\* C10: get(ptr) returns the value of slot ptr.index() exactly when the index
\* is below capacity(), the slot is occupied and its generation is
\* ptr.generation(); in every other case it returns None.
C10_GetReturnsExactlyTheMatchingValue ==
    \A ptr \in TinyPointer :
        /\ Matches(slots, ptr) =>
              /\ get(slots, ptr) = slots[ptr.index + 1].value
              /\ get(slots, ptr) # None
        /\ ~Matches(slots, ptr) => get(slots, ptr) = None

\* get() has just returned None for a pointer with a stale generation whose
\* slot is occupied again, while an out-of-range and a valid pointer exist too
C10_Witness ==
    /\ last.op = "get" /\ last.watched /\ last.ret = None
    /\ watch.ptr.index < capacity(slots)
    /\ Occupied(slots, watch.ptr.index)
    /\ slots[watch.ptr.index + 1].generation # watch.ptr.generation
    /\ \E ptr \in TinyPointer : ptr.index >= capacity(slots)
    /\ \E ptr \in TinyPointer : Matches(slots, ptr)

\* what C11 says of new(n): it panics for n = 0, and for n > 0 it returns a
\* table of n slots, all free with generation 0, whose free list holds each of
\* 0 .. n-1 exactly once, so that allocated() is 0
NewIsFresh(n) ==
    LET t == new(n)
    IN  IF n = 0 THEN t.panic
        ELSE /\ ~t.panic
             /\ capacity(t.slots) = n
             /\ \A i \in Indices(t.slots) : t.slots[i + 1] = Slot(None, 0)
             /\ \A i \in 0 .. (n - 1) :
                   Cardinality({ k \in 1 .. Len(t.free_list) : t.free_list[k] = i }) = 1
             /\ \A k \in 1 .. Len(t.free_list) : t.free_list[k] \in 0 .. (n - 1)
             /\ allocated(t.slots, t.free_list) = { [panic |-> FALSE, val |-> 0] }

\* C11: new(n) with n > 0 yields a table with capacity() = n, every slot free
\* with generation 0, a free list holding each index 0 .. n-1 exactly once and
\* allocated() = 0; new(0) panics and yields no table.  Stated of the table a
\* run starts from and of new(n) for every n up to MaxNewArg.
C11_NewBuildsAFreshTable ==
    /\ last.op = "panic" =>
          init_capacity = 0 /\ new(init_capacity).panic
    /\ last.op = "new" =>
          /\ init_capacity > 0
          /\ slots = new(init_capacity).slots
          /\ free_list = new(init_capacity).free_list
          /\ capacity(slots) = init_capacity
          /\ \A i \in Indices(slots) : ~Occupied(slots, i) /\ slots[i + 1].generation = 0
          /\ allocated(slots, free_list) = { [panic |-> FALSE, val |-> 0] }
    /\ \A n \in 0 .. MaxNewArg : NewIsFresh(n)
C11_Witness ==
    /\ last.op = "new"
    /\ init_capacity > 0
    /\ capacity(slots) = init_capacity
    /\ free_list = << 0 >>
    /\ new(0).panic

SomeSlotFree(s) == \E i \in Indices(s) : ~Occupied(s, i)

C13_GenerationStepsOnlyOnRelease ==
    [][ \A i \in Indices(slots) :
          LET g     == slots[i + 1].generation
              gNext == slots'[i + 1].generation
          IN  /\ (Occupied(slots, i) /\ Occupied(slots', i)) => gNext = g
              /\ (Occupied(slots, i) /\ ~Occupied(slots', i)) =>
                     gNext = (g + 1) % GenMod
              /\ (gNext # g) => (Occupied(slots, i) /\ ~Occupied(slots', i))
              /\ (\/ last'.op \in {"allocate", "get", "get_mut", "resize"}
                  \/ last'.op = "free" /\ last'.ret = None) => gNext = g ]_vars

\* C14: allocate(v) never overwrites an occupied slot: the slot it writes held
\* no value immediately before the call (it was a free slot of the table or a
\* slot added by the resize of this call); the handle returned carries that
\* slot's index and current generation; get(handle) returns v right after; and
\* allocated() is exactly one larger than before the call.
C14_AllocateTakesAFreeSlot ==
    [][ \A value \in Values :
          LET r == allocate(slots, free_list, value)
          IN  (last'.op = "allocate" /\ slots' = r.slots /\ free_list' = r.free_list)
                 => /\ IF r.idx < capacity(slots)
                       THEN ~Occupied(slots, r.idx)
                       ELSE r.resized
                    /\ r.ptr.index = r.idx
                    /\ r.ptr.generation = slots'[r.idx + 1].generation
                    /\ get(slots', r.ptr) = Some(value)
                    /\ \A a \in allocated(slots, free_list) :
                          \A b \in allocated(slots', free_list') :
                             ~a.panic /\ ~b.panic /\ b.val = a.val + 1 ]_vars

\* C15: get_mut matches a handle by the rule of get (it returns a value exactly
\* when get does, and the same one), and a write of w through get_mut(h) on a
\* valid h is visible in place: afterwards get(h) returns w and free(h) would
\* return w, while every slot's generation, the free list, the capacity and the
\* value seen through every other handle are unchanged.
C15_GetMutWritesInPlace ==
    /\ [](\A ptr \in TinyPointer : get_mut(slots, ptr) = get(slots, ptr))
    /\ [][ (last'.op = "get_mut" /\ last'.ret # None) =>
           \A ptr \in { p \in TinyPointer : get_mut(slots, p) # None } : \A w \in Values :
             (slots' = write(slots, ptr, w) /\ GetMut(ptr))
                => /\ get(slots', ptr) = Some(w)
                   /\ free(slots', free_list', ptr).ret = Some(w)
                   /\ \A i \in Indices(slots) :
                         slots'[i + 1].generation = slots[i + 1].generation
                   /\ free_list' = free_list
                   /\ capacity(slots') = capacity(slots)
                   /\ \A other \in TinyPointer \ {ptr} :
                         get(slots', other) = get(slots, other) ]_vars
\* the watched handle has just been written through get_mut: the call found the
\* allocated value, get now returns another one, and a second handle is live
C15_Witness ==
    /\ last.op = "get_mut" /\ last.watched
    /\ watch.on
    /\ last.ret = Some(watch.val)
    /\ get(slots, watch.ptr) # None
    /\ get(slots, watch.ptr) # Some(watch.val)
    /\ \E other \in TinyPointer \ {watch.ptr} : get(slots, other) # None

\* C16: allocated() equals the number of allocate calls minus the number of
\* free calls that returned a value.  Stated call by call, which is the same
\* by induction on the calls: allocated() is 0 for the table new() returns,
\* an allocate call adds 1 to it, a free call that returns a value takes 1
\* from it, and no other call changes it, a free call that returns absence
\* in particular.
C16_AllocatedFollowsTheCalls ==
    /\ [](last.op = "new" =>
             allocated(slots, free_list) = { [panic |-> FALSE, val |-> 0] })
    /\ [][ \A a \in allocated(slots, free_list) :
             \A b \in allocated(slots', free_list') :
                /\ ~a.panic
                /\ ~b.panic
                /\ b.val = a.val + (IF last'.op = "allocate" THEN 1
                                    ELSE IF last'.op = "free" /\ last'.ret # None
                                         THEN -1 ELSE 0) ]_vars

\* C17: for a table created by new(c) and driven through allocate, get, get_mut
\* and free only, capacity() is always c * 2^k for the least k >= 0 with
\* c * 2^k >= the largest number of simultaneously occupied slots reached so
\* far (peak): the table has not grown while a free slot was available and it
\* holds every slot that was occupied at one time.
C17_CapacityIsLeastDoubling ==
    last.op # "panic" =>
       /\ occupied(slots) <= peak
       /\ \E k \in 0 .. capacity(slots) :
             /\ capacity(slots) = init_capacity * (2 ^ k)
             /\ init_capacity * (2 ^ k) >= peak
             /\ \A j \in 0 .. (k - 1) : init_capacity * (2 ^ j) < peak
\* the table has doubled once, a slot has been freed since and an allocate has
\* just reused it without growing the table
C17_Witness ==
    /\ last.op = "allocate" /\ ~last.resized
    /\ init_capacity = 1
    /\ capacity(slots) = 2 * init_capacity
    /\ peak = 2
    /\ occupied(slots) = 2
    /\ recycled # {}

\* C18: for every allocate call, the index of the handle returned equals the
\* index of the slot the call wrote, at every capacity the table can reach:
\* the narrowing `idx as u32` never makes a handle refer to another slot.
C18_HandleIndexIsSlotIndex ==
    [][ \A value \in Values :
          LET r == allocate(slots, free_list, value)
          IN  (last'.op = "allocate" /\ slots' = r.slots /\ free_list' = r.free_list)
                 => /\ r.ptr.index = r.idx
                    /\ slots'[r.ptr.index + 1].value = Some(value) ]_vars

====
